---- MODULE Spec2Model ----
(***************************************************************************)
(* Model of l3x/src/gpt_validator.rs: validate_vulnerabilities_with_gpt    *)
(* (prompt building, one chat-completion round trip, verdict extraction)   *)
(* and the substring classifier analyze_response_text.                     *)
(*                                                                         *)
(* Rust Strings are TLA+ strings (ASCII); Option<T> is <<>> (None) or      *)
(* <<v>> (Some(v)); Result is a record tagged "Ok" or "Err".  Each call of *)
(* the async function is one entry of the per-call variables; its two      *)
(* suspension points are pc = "send" (line 84) and pc = "body" (line 87).  *)
(***************************************************************************)
EXTENDS Integers, Sequences, FiniteSets, TLC

VARIABLES pc, args, findings_list, prompt, sent, response, text, result

vars == <<pc, args, findings_list, prompt, sent, response, text, result>>

None == <<>>
Some(v) == <<v>>

\* ------------------------------------------------------------------ bounds
NumCalls == 2
MaxFindings == 3
MaxChoices == 2
MaxPad == 1

Calls == 1..NumCalls

\* ------------------------------------------------------- string primitives
\* str::contains(&str): pat occurs in s as a contiguous substring
contains(s, pat) ==
    \E i \in 1..(Len(s) - Len(pat) + 1) : SubSeq(s, i, i + Len(pat) - 1) = pat

AsciiUpper == "ABCDEFGHIJKLMNOPQRSTUVWXYZ"
AsciiLower == "abcdefghijklmnopqrstuvwxyz"

\* char::to_lowercase on one ASCII character (a one-character string)
lower_char(ch) ==
    IF \E i \in 1..26 : SubSeq(AsciiUpper, i, i) = ch
    THEN LET i == CHOOSE j \in 1..26 : SubSeq(AsciiUpper, j, j) = ch
         IN  SubSeq(AsciiLower, i, i)
    ELSE ch

RECURSIVE lower_from(_, _)
lower_from(s, i) ==
    IF i > Len(s) THEN "" ELSE lower_char(SubSeq(s, i, i)) \o lower_from(s, i + 1)

\* str::to_lowercase: a new String, each character lowercased
to_lowercase(s) == lower_from(s, 1)

Digits == "0123456789"

\* Display for usize, as format!("{}", n) renders it: decimal, no padding
RECURSIVE usize_to_string(_)
usize_to_string(n) ==
    IF n < 10 THEN SubSeq(Digits, n + 1, n + 1)
    ELSE usize_to_string(n \div 10) \o SubSeq(Digits, (n % 10) + 1, (n % 10) + 1)

\* a filter that forgets "High"
retained_critical_only(validate_all_severities, severity) ==
    validate_all_severities \/ severity = "Critical"

\* ------------------------------------------------- prompt builder (47-64)
\* line 49: the severity filter of one finding (line, id, severity, extra)
retained(validate_all_severities, severity) ==
    validate_all_severities \/ severity = "Critical" \/ severity = "High"

\* line 50: format!("line {}: {}\n", line_number, vulnerability_id)
finding_entry(line_number, vulnerability_id) ==
    "line " \o usize_to_string(line_number) \o ": " \o vulnerability_id \o "\n"

\* lines 47-52: the loop over findings_by_file from index i on, appending to acc
RECURSIVE findings_loop(_, _, _, _)
findings_loop(findings_by_file, validate_all_severities, i, acc) ==
    IF i > Len(findings_by_file) THEN acc
    ELSE LET f == findings_by_file[i]
         IN  findings_loop(findings_by_file, validate_all_severities, i + 1,
                 IF retained(validate_all_severities, f[3])
                 THEN acc \o finding_entry(f[1], f[2])
                 ELSE acc)

build_findings_list(findings_by_file, validate_all_severities) ==
    findings_loop(findings_by_file, validate_all_severities, 1, "")

\* lines 55-58 and 59-62: the two format! templates differ in one word
prompt_template(lang_word, file_content, list) ==
    "A SAST tool detects potential " \o lang_word
    \o " vulnerabilities in the following file:\n\nSource code:\n"
    \o file_content \o "\n\nFindings list:\n" \o list
    \o "\n\nAre these valid vulnerabilities or false positives? Provide an explanation."

Err(kind, msg) == [tag |-> "Err", kind |-> kind, msg |-> msg]
Ok(v) == [tag |-> "Ok", value |-> v]

\* a match whose `_` arm falls back to a generic template instead of returning
build_prompt_any_language(language, file_content, list) ==
    IF language = "Rust" THEN Ok(prompt_template("Rust", file_content, list))
    ELSE IF language = "Solidity-Ethereum"
         THEN Ok(prompt_template("Solidity", file_content, list))
         ELSE Ok(prompt_template(language, file_content, list))

\* a builder that gives up when no finding was retained
build_prompt_requires_findings(language, file_content, list) ==
    IF list = "" THEN Err("InvalidInput", "No findings")
    ELSE IF language = "Rust" THEN Ok(prompt_template("Rust", file_content, list))
    ELSE IF language = "Solidity-Ethereum"
         THEN Ok(prompt_template("Solidity", file_content, list))
         ELSE Err("InvalidInput", "Unsupported language")

\* lines 54-64: match language; the `_` arm returns early with an io::Error
build_prompt(language, file_content, list) ==
    IF language = "Rust" THEN Ok(prompt_template("Rust", file_content, list))
    ELSE IF language = "Solidity-Ethereum"
         THEN Ok(prompt_template("Solidity", file_content, list))
         ELSE Err("InvalidInput", "Unsupported language")

\* ---------------------------------------------- request dispatcher (66-84)
\* lines 66-72: ChatRequest with a single user message
chat_request(content) ==
    [model |-> "gpt-3.5-turbo", messages |-> <<[role |-> "user", content |-> content]>>]

\* lines 74-84: the POST, its headers in the order they are attached, its JSON body
build_request(openai_creds, content) ==
    [method |-> "POST",
     url |-> "https://api.openai.com/v1/chat/completions",
     headers |-> <<<<"Content-Type", "application/json">>,
                   <<"Authorization", "Bearer " \o openai_creds.api_key>>>>
                 \o (IF openai_creds.org_id # None
                     THEN <<<<"OpenAI-Organization", openai_creds.org_id[1]>>>> ELSE <<>>)
                 \o (IF openai_creds.project_id # None
                     THEN <<<<"OpenAI-Project", openai_creds.project_id[1]>>>> ELSE <<>>),
     json |-> chat_request(content)]

\* a status test that also accepts the 3xx class
is_success_below_400(status) == status >= 200 /\ status < 400

\* line 86: StatusCode::is_success, the 2xx class
is_success(status) == status >= 200 /\ status < 300

\* choices.last() in place of choices.get(0)
last_choice_text(choices) ==
    IF Len(choices) = 0 THEN "" ELSE choices[Len(choices)].message.content

\* lines 88-91: choices.get(0).map_or_else(|| "", |choice| &choice.message.content)
first_choice_text(choices) ==
    IF Len(choices) = 0 THEN "" ELSE choices[1].message.content

\* the phrase list of the specification, with its exact-case marks
FalsePositivePhrases ==
    <<[phrase |-> "not a vulnerability", exact |-> TRUE],
      [phrase |-> "is not a valid vulnerability", exact |-> TRUE],
      [phrase |-> "appears to be a false positive", exact |-> FALSE],
      [phrase |-> "is no vulnerability present", exact |-> FALSE],
      [phrase |-> "is a false positive", exact |-> FALSE],
      [phrase |-> "likely a false positive", exact |-> FALSE],
      [phrase |-> "may be a false positive", exact |-> FALSE],
      [phrase |-> "seems to be a false positive", exact |-> FALSE],
      [phrase |-> "most likely a false positive", exact |-> FALSE],
      [phrase |-> "does not contain a vulnerability", exact |-> FALSE],
      [phrase |-> "not appear to have a potential vulnerability", exact |-> FALSE],
      [phrase |-> "does not seem to have any obvious vulnerability", exact |-> FALSE],
      [phrase |-> "does not introduce a vulnerability", exact |-> FALSE],
      [phrase |-> "not suggest any security issues", exact |-> FALSE],
      [phrase |-> "does not appear to be vulnerable", exact |-> FALSE],
      [phrase |-> "does not appear to have any clear vulnerability", exact |-> FALSE],
      [phrase |-> "does not appear to have any potential vulnerability", exact |-> FALSE],
      [phrase |-> "is not valid in this case", exact |-> FALSE],
      [phrase |-> "does not appear to be valid", exact |-> FALSE],
      [phrase |-> "does not appear to contain any potential vulnerability", exact |-> FALSE]>>

PhraseIdx == 1..Len(FalsePositivePhrases)

\* ------------------------------------------- verdict classifier (104-151)
\* a classifier that lowercases the text for every phrase, the two exact-case ones too
analyze_ignoring_case(t) ==
    IF \/ \E i \in PhraseIdx : contains(to_lowercase(t), FalsePositivePhrases[i].phrase)
       \/ Len(t) = 0
    THEN "False positive"
    ELSE "Valid"

\* a classifier that never lowercases the text
analyze_raw_only(t) ==
    IF \/ \E i \in PhraseIdx : contains(t, FalsePositivePhrases[i].phrase)
       \/ Len(t) = 0
    THEN "False positive"
    ELSE "Valid"

analyze_response_text(t) ==
    LET low == to_lowercase(t) IN
    IF \/ contains(t, "not a vulnerability")
       \/ contains(t, "is not a valid vulnerability")
       \/ contains(low, "appears to be a false positive")
       \/ contains(low, "is no vulnerability present")
       \/ contains(low, "is a false positive")
       \/ contains(low, "likely a false positive")
       \/ contains(low, "may be a false positive")
       \/ contains(low, "seems to be a false positive")
       \/ contains(low, "most likely a false positive")
       \/ contains(low, "does not contain a vulnerability")
       \/ contains(low, "not appear to have a potential vulnerability")
       \/ contains(low, "does not seem to have any obvious vulnerability")
       \/ contains(low, "does not introduce a vulnerability")
       \/ contains(low, "not suggest any security issues")
       \/ contains(low, "does not appear to be vulnerable")
       \/ contains(low, "does not appear to have any clear vulnerability")
       \/ contains(low, "does not appear to have any potential vulnerability")
       \/ contains(low, "is not valid in this case")
       \/ contains(low, "does not appear to be valid")
       \/ contains(low, "does not appear to contain any potential vulnerability")
       \/ Len(t) = 0
    THEN "False positive"
    ELSE "Valid"

\* ------------------------------------------------------------- the calls
Init ==
    /\ pc = [c \in Calls |-> "idle"]
    /\ args = [c \in Calls |-> None]
    /\ findings_list = [c \in Calls |-> None]
    /\ prompt = [c \in Calls |-> None]
    /\ sent = [c \in Calls |-> <<>>]
    /\ response = [c \in Calls |-> None]
    /\ text = [c \in Calls |-> None]
    /\ result = [c \in Calls |-> None]

\* an Invoke whose findings_list is one buffer shared by all calls
Invoke_shared_buffer(c, a) ==
    /\ pc[c] = "idle"
    /\ LET list == build_findings_list(a.findings_by_file, a.validate_all_severities)
           p == build_prompt(a.language, a.file_content, list)
       IN  /\ args' = [args EXCEPT ![c] = Some(a)]
           /\ findings_list' = [d \in Calls |->
                                  IF d = c \/ findings_list[d] # None THEN Some(list) ELSE None]
           /\ IF p.tag = "Ok"
              THEN /\ prompt' = [prompt EXCEPT ![c] = Some(p.value)]
                   /\ sent' = [sent EXCEPT ![c] =
                                 Append(@, build_request(a.openai_creds, p.value))]
                   /\ pc' = [pc EXCEPT ![c] = "send"]
                   /\ result' = result
              ELSE /\ prompt' = prompt
                   /\ sent' = sent
                   /\ pc' = [pc EXCEPT ![c] = "done"]
                   /\ result' = [result EXCEPT ![c] = Some(p)]
    /\ UNCHANGED <<response, text>>

\* lines 38-84: a caller invokes the function with inputs a; the body runs up to
\* the first suspension point (send().await) or to the early return of line 63
Invoke(c, a) ==
    /\ pc[c] = "idle"
    /\ LET list == build_findings_list(a.findings_by_file, a.validate_all_severities)
           p == build_prompt(a.language, a.file_content, list)
       IN  /\ args' = [args EXCEPT ![c] = Some(a)]
           /\ findings_list' = [findings_list EXCEPT ![c] = Some(list)]
           /\ IF p.tag = "Ok"
              THEN /\ prompt' = [prompt EXCEPT ![c] = Some(p.value)]
                   /\ sent' = [sent EXCEPT ![c] =
                                 Append(@, build_request(a.openai_creds, p.value))]
                   /\ pc' = [pc EXCEPT ![c] = "send"]
                   /\ result' = result
              ELSE /\ prompt' = prompt
                   /\ sent' = sent
                   /\ pc' = [pc EXCEPT ![c] = "done"]
                   /\ result' = [result EXCEPT ![c] = Some(p)]
    /\ UNCHANGED <<response, text>>

\* a send failure answered by sending the request once more
SendFails_retry(c) ==
    /\ pc[c] = "send"
    /\ sent' = [sent EXCEPT ![c] = Append(@, @[1])]
    /\ UNCHANGED <<pc, args, findings_list, prompt, response, text, result>>

\* line 84: send().await? yields Err (builder, connect, timeout ...): propagated
SendFails(c) ==
    /\ pc[c] = "send"
    /\ response' = [response EXCEPT ![c] = Some(Err("reqwest", "send"))]
    /\ result' = [result EXCEPT ![c] = Some(Err("reqwest", "send"))]
    /\ pc' = [pc EXCEPT ![c] = "done"]
    /\ UNCHANGED <<args, findings_list, prompt, sent, text>>

\* lines 84-86, 96-100: send().await? yields the response r (status, then body)
Respond(c, r) ==
    /\ pc[c] = "send"
    /\ response' = [response EXCEPT ![c] = Some(Ok(r))]
    /\ IF is_success(r.status)
       THEN /\ pc' = [pc EXCEPT ![c] = "body"]
            /\ result' = result
       ELSE /\ pc' = [pc EXCEPT ![c] = "done"]
            /\ result' = [result EXCEPT ![c] =
                            Some(Err("Other", "Failed to get a valid response from OpenAI"))]
    /\ UNCHANGED <<args, findings_list, prompt, sent, text>>

\* a body that fails to parse taken as an empty ChatResponse (unwrap_or_default)
ReadBody_lenient(c) ==
    /\ pc[c] = "body"
    /\ LET body == response[c][1].value.body
           t == IF body.kind = "json" THEN first_choice_text(body.choices) ELSE ""
       IN  /\ text' = [text EXCEPT ![c] = Some(t)]
           /\ result' = [result EXCEPT ![c] = Some(Ok(<<analyze_response_text(t), "">>))]
    /\ pc' = [pc EXCEPT ![c] = "done"]
    /\ UNCHANGED <<args, findings_list, prompt, sent, response>>

\* lines 87-95: response.json::<ChatResponse>().await? then classification
ReadBody(c) ==
    /\ pc[c] = "body"
    /\ LET body == response[c][1].value.body IN
       IF body.kind = "json"
       THEN LET t == first_choice_text(body.choices)
                status == analyze_response_text(t)
            IN  /\ text' = [text EXCEPT ![c] = Some(t)]
                /\ result' = [result EXCEPT ![c] = Some(Ok(<<status, "">>))]
       ELSE /\ text' = text
            /\ result' = [result EXCEPT ![c] = Some(Err("reqwest", "decode"))]
    /\ pc' = [pc EXCEPT ![c] = "done"]
    /\ UNCHANGED <<args, findings_list, prompt, sent, response>>

\* every local of the call is gone once its future is finished or dropped
Clear(c) ==
    /\ pc' = [pc EXCEPT ![c] = "idle"]
    /\ args' = [args EXCEPT ![c] = None]
    /\ findings_list' = [findings_list EXCEPT ![c] = None]
    /\ prompt' = [prompt EXCEPT ![c] = None]
    /\ sent' = [sent EXCEPT ![c] = <<>>]
    /\ response' = [response EXCEPT ![c] = None]
    /\ text' = [text EXCEPT ![c] = None]
    /\ result' = [result EXCEPT ![c] = None]

\* lines 84, 87: the caller drops the future while it is suspended at an await
Drop(c) ==
    /\ pc[c] \in {"send", "body"}
    /\ Clear(c)

\* lines 63, 95, 97: the caller takes the returned Result; the call is over
Return(c) ==
    /\ pc[c] = "done"
    /\ Clear(c)

\* ------------------------------------------------------------- the inputs
\* all sequences over S of length at most n
SeqUpTo(S, n) == UNION {[1..k -> S] : k \in 0..n}

CredsFull == [api_key |-> "sk-A", org_id |-> Some("org-1"), project_id |-> Some("proj-1")]
CredsKeyOnly == [api_key |-> "sk-B", org_id |-> None, project_id |-> None]

CallArgs(creds, findings, content, language, all) ==
    [openai_creds |-> creds, findings_by_file |-> findings, file_content |-> content,
     language |-> language, validate_all_severities |-> all]

\* findings (line_number, vulnerability_id, severity, unused fourth field)
FindingPool ==
    {<<3, "RUST001", "Low", "m1">>, <<12, "RUST002", "High", "m2">>,
     <<105, "SOL003", "Critical", "m3">>, <<40, "RUST004", "Medium", "m4">>,
     <<0, "RUST005", "high", "m5">>}

SeveritySample ==
    <<<<1, "A", "Low", "">>, <<2, "B", "High", "">>, <<3, "C", "Critical", "">>,
      <<4, "D", "Medium", "">>>>

JsonBody(choices) == [kind |-> "json", choices |-> choices]
InvalidBody == [kind |-> "invalid"]
Choice(content) == [message |-> [content |-> content]]
HttpResponse(status, body) == [status |-> status, body |-> body]

upper_char(ch) ==
    IF \E i \in 1..26 : SubSeq(AsciiLower, i, i) = ch
    THEN LET i == CHOOSE j \in 1..26 : SubSeq(AsciiLower, j, j) = ch
         IN  SubSeq(AsciiUpper, i, i)
    ELSE ch

RECURSIVE upper_from(_, _)
upper_from(s, i) ==
    IF i > Len(s) THEN "" ELSE upper_char(SubSeq(s, i, i)) \o upper_from(s, i + 1)

\* reply texts: every phrase as listed, capitalised, in capitals and cut short,
\* the scenarios of the specification, and texts that only overlap a phrase
TextCores ==
    {FalsePositivePhrases[i].phrase : i \in PhraseIdx}
    \cup {upper_char(SubSeq(FalsePositivePhrases[i].phrase, 1, 1))
          \o SubSeq(FalsePositivePhrases[i].phrase, 2, Len(FalsePositivePhrases[i].phrase))
          : i \in PhraseIdx}
    \cup {upper_from(FalsePositivePhrases[i].phrase, 1) : i \in PhraseIdx}
    \cup {SubSeq(FalsePositivePhrases[i].phrase, 1, Len(FalsePositivePhrases[i].phrase) - 1)
          : i \in PhraseIdx}
    \cup {"", "This does not appear to be vulnerable because input is sanitized.",
          "This is a classic SQL injection vulnerability.",
          "This Is Not A Vulnerability", "a false positive", "Not a valid finding",
          "It cannot a vulnerability be"}

PadChars == {" ", "Z"}

RECURSIVE Pads(_)
Pads(n) == IF n = 0 THEN {""} ELSE Pads(n - 1) \cup {p \o ch : p \in Pads(n - 1), ch \in PadChars}

Texts == {pre \o core \o post : pre \in Pads(MaxPad), core \in TextCores, post \in {"", "."}}

SampleTexts == {"", "This is a false positive.", "Confirmed: a real overflow."}

SampleBodies == {InvalidBody} \cup {JsonBody(cs) : cs \in SeqUpTo({Choice(t) : t \in SampleTexts}, MaxChoices)}

\* ------------------------------------------ concurrent callers (section 5)
ConcArgs ==
    {CallArgs(CredsFull, SeveritySample, "fn main() {}", "Rust", FALSE),
     CallArgs(CredsKeyOnly, <<<<9, "SOL001", "Low", "">>>>, "contract C {}", "Solidity-Ethereum", TRUE),
     CallArgs(CredsKeyOnly, <<>>, "fn f() {}", "Rust", FALSE),
     CallArgs(CredsFull, SeveritySample, "print(1)", "Python", TRUE)}

ConcResponses ==
    {HttpResponse(200, JsonBody(<<Choice("This is a false positive.")>>)),
     HttpResponse(200, JsonBody(<<Choice("Confirmed: a real overflow.")>>)),
     HttpResponse(200, InvalidBody),
     HttpResponse(500, JsonBody(<<Choice("This is a false positive.")>>))}

Step(c, A, R) ==
    \/ \E a \in A : Invoke(c, a)
    \/ SendFails(c)
    \/ \E r \in R : Respond(c, r)
    \/ ReadBody(c)
    \/ Drop(c)
    \/ Return(c)

Next == \E c \in Calls : Step(c, ConcArgs, ConcResponses)

Spec == Init /\ [][Next]_vars

\* --------------------------- one caller, every reply text (section 4.3)
ClassifyArgs == {CallArgs(CredsFull, SeveritySample, "fn main() {}", "Rust", FALSE)}

ClassifyResponses ==
    {HttpResponse(200, JsonBody(<<Choice(t)>>)) : t \in Texts}
    \cup {HttpResponse(st, b) : st \in {200, 299, 300, 404, 500}, b \in SampleBodies}
    \cup {HttpResponse(199, JsonBody(<<>>)), HttpResponse(503, JsonBody(<<Choice("not a vulnerability")>>))}

NextClassify == Step(1, ClassifyArgs, ClassifyResponses)

SpecClassify == Init /\ [][NextClassify]_vars

\* ------------------------ one caller, every findings list (section 4.1)
Languages == {"Rust", "Solidity-Ethereum", "Python", "rust", "Solidity", ""}

PromptArgs ==
    {CallArgs(CredsKeyOnly, fs, "fn main() {}", lang, all) :
        fs \in SeqUpTo(FindingPool, MaxFindings) \cup {SeveritySample},
        lang \in Languages, all \in BOOLEAN}
    \cup {CallArgs(creds, fs, content, lang, all) :
        creds \in {CredsFull, CredsKeyOnly}, fs \in {<<>>, SeveritySample},
        content \in {"", "Findings list:\nline 1: X\n"},
        lang \in Languages, all \in BOOLEAN}

PromptResponses ==
    {HttpResponse(200, JsonBody(<<Choice("This is a false positive.")>>)),
     HttpResponse(200, JsonBody(<<Choice("Confirmed: a real overflow.")>>)),
     HttpResponse(404, InvalidBody)}

NextPrompt == Step(1, PromptArgs, PromptResponses)

SpecPrompt == Init /\ [][NextPrompt]_vars

\* ------------------------------------------------------------ the claims
Supported(language) == language \in {"Rust", "Solidity-Ethereum"}

Status2xx(status) == status \in 200..299

\* the text matches a listed phrase: the exact-case ones on the raw text, the
\* others on the lowercased text
MatchesPhrase(t) ==
    \E i \in PhraseIdx :
        IF FalsePositivePhrases[i].exact
        THEN contains(t, FalsePositivePhrases[i].phrase)
        ELSE contains(to_lowercase(t), FalsePositivePhrases[i].phrase)

VerdictFor(t) == IF t = "" \/ MatchesPhrase(t) THEN "False positive" ELSE "Valid"

Verdict(v) == Some(Ok(<<v, "">>))

ArgsOf(c) == args[c][1]

\* the call got a response (not a send failure); its status and body
GotResponse(c) == response[c] # None /\ response[c][1].tag = "Ok"
StatusOf(c) == response[c][1].value.status
BodyOf(c) == response[c][1].value.body

\* the findings the severity filter keeps, and the list they make
Kept(findings, all) == SelectSeq(findings, LAMBDA f : all \/ f[3] \in {"Critical", "High"})

RECURSIVE Entries(_)
Entries(fs) ==
    IF fs = <<>> THEN ""
    ELSE "line " \o ToString(fs[1][1]) \o ": " \o fs[1][2] \o "\n" \o Entries(Tail(fs))

ExpectedList(a) == Entries(Kept(a.findings_by_file, a.validate_all_severities))

\* C1: a classified text that contains a listed phrase (the two exact-case
\* phrases in the raw text, the others in the lowercased text) gets the
\* verdict "False positive"
C1_PhraseYieldsFalsePositive ==
    \A c \in Calls :
        (pc[c] = "done" /\ text[c] # None /\ MatchesPhrase(text[c][1]))
            => result[c] = Verdict("False positive")

\* a phrase matched only after lowercasing was classified
C1_Witness ==
    \E c \in Calls :
        /\ pc[c] = "done" /\ text[c] # None
        /\ MatchesPhrase(text[c][1])
        /\ \A i \in PhraseIdx : ~contains(text[c][1], FalsePositivePhrases[i].phrase)
        /\ result[c] = Verdict("False positive")

\* C2: a classified non-empty text that contains none of the listed phrases
\* under those matching rules gets the verdict "Valid", also when it holds a
\* differently-cased variant of an exact-case phrase
C2_NoPhraseYieldsValid ==
    \A c \in Calls :
        (pc[c] = "done" /\ text[c] # None /\ text[c][1] # ""
         /\ ~MatchesPhrase(text[c][1]))
            => result[c] = Verdict("Valid")

\* a differently-cased "not a vulnerability" was classified "Valid"
C2_Witness ==
    \E c \in Calls :
        /\ pc[c] = "done" /\ text[c] # None
        /\ contains(to_lowercase(text[c][1]), "not a vulnerability")
        /\ ~contains(text[c][1], "not a vulnerability")
        /\ result[c] = Verdict("Valid")

\* C3: after a success status and a parsed body, the extracted text is "" when
\* there are no choices and the first choice's content otherwise; the verdict
\* is the classification of that text alone, "False positive" for no choices
C3_FirstChoiceOrEmpty ==
    \A c \in Calls :
        (pc[c] = "done" /\ GotResponse(c) /\ Status2xx(StatusOf(c))
         /\ BodyOf(c).kind = "json")
            => LET cs == BodyOf(c).choices
                   t == IF cs = <<>> THEN "" ELSE cs[1].message.content
               IN  /\ text[c] = Some(t)
                   /\ result[c] = Verdict(VerdictFor(t))
                   /\ cs = <<>> => result[c] = Verdict("False positive")

\* a success response with zero choices was answered "False positive"
C3_Witness ==
    \E c \in Calls :
        /\ pc[c] = "done" /\ GotResponse(c) /\ Status2xx(StatusOf(c))
        /\ BodyOf(c).kind = "json" /\ BodyOf(c).choices = <<>>
        /\ text[c] = Some("") /\ result[c] = Verdict("False positive")

\* C4: a call with a language tag other than "Rust" and "Solidity-Ethereum"
\* is over with the unsupported-language error and has sent no request
C4_UnsupportedLanguage ==
    \A c \in Calls :
        (pc[c] # "idle" /\ ~Supported(ArgsOf(c).language))
            => /\ pc[c] = "done"
               /\ result[c] = Some(Err("InvalidInput", "Unsupported language"))
               /\ sent[c] = <<>>
               /\ prompt[c] = None /\ response[c] = None

\* an unsupported language met findings the filter keeps
C4_Witness ==
    \E c \in Calls :
        /\ pc[c] = "done" /\ ArgsOf(c).language = "Python"
        /\ Kept(ArgsOf(c).findings_by_file, ArgsOf(c).validate_all_severities) # <<>>
        /\ result[c] = Some(Err("InvalidInput", "Unsupported language"))

\* C5: the findings list is one entry "line N: id" per finding that passes the
\* filter (all of them under validate_all_severities, else severity "Critical"
\* or "High"), in input order, and that list is what the prompt and the
\* request embed
C5_FindingsList ==
    \A c \in Calls :
        pc[c] # "idle"
            => /\ findings_list[c] = Some(ExpectedList(ArgsOf(c)))
               /\ Supported(ArgsOf(c).language)
                    => /\ contains(prompt[c][1],
                             "\n\nFindings list:\n" \o ExpectedList(ArgsOf(c))
                             \o "\n\nAre these valid vulnerabilities")
                       /\ sent[c][1].json.messages[1].content = prompt[c][1]

\* severities Low, High, Critical, Medium without validate_all_severities
C5_Witness ==
    \E c \in Calls :
        /\ pc[c] = "send"
        /\ ArgsOf(c).findings_by_file = SeveritySample
        /\ ~ArgsOf(c).validate_all_severities
        /\ findings_list[c] = Some("line 2: B\nline 3: C\n")

\* C6: after a non-success status the call is over with an error, whatever
\* the body holds; no text is extracted from it and nothing is classified
C6_NonSuccessIsError ==
    \A c \in Calls :
        (pc[c] # "idle" /\ GotResponse(c) /\ ~Status2xx(StatusOf(c)))
            => /\ pc[c] = "done"
               /\ result[c] = Some(Err("Other", "Failed to get a valid response from OpenAI"))
               /\ text[c] = None

\* a non-success response whose first choice holds a false-positive phrase
C6_Witness ==
    \E c \in Calls :
        /\ pc[c] = "done" /\ GotResponse(c) /\ ~Status2xx(StatusOf(c))
        /\ BodyOf(c).kind = "json" /\ BodyOf(c).choices # <<>>
        /\ MatchesPhrase(BodyOf(c).choices[1].message.content)
        /\ result[c][1].tag = "Err"

IsVerdict(r) ==
    /\ DOMAIN r = {"tag", "value"} /\ r.tag = "Ok"
    /\ r.value[1] \in {"Valid", "False positive"} /\ r.value[2] = "" /\ Len(r.value) = 2

IsError(r) == DOMAIN r = {"tag", "kind", "msg"} /\ r.tag = "Err"

\* what makes a call fail: language, send failure, status, body
Failed(c) ==
    \/ ~Supported(ArgsOf(c).language)
    \/ response[c] # None /\ response[c][1].tag = "Err"
    \/ GotResponse(c) /\ ~Status2xx(StatusOf(c))
    \/ GotResponse(c) /\ BodyOf(c).kind # "json"

\* C7: a call has a result exactly when it is over, and the result is either
\* a verdict ("Valid" or "False positive", with explanation "") or an error,
\* an error whenever the language is unsupported, the send failed, the status
\* is not a success or the body did not parse
C7_VerdictOrError ==
    \A c \in Calls :
        /\ result[c] # None <=> pc[c] = "done"
        /\ pc[c] = "done"
             => /\ IsVerdict(result[c][1]) # IsError(result[c][1])
                /\ Failed(c) => IsError(result[c][1])
                /\ ~Failed(c) => IsVerdict(result[c][1])

\* a call ended in an error because the body did not parse
C7_Witness ==
    \E c \in Calls :
        /\ pc[c] = "done" /\ GotResponse(c) /\ Status2xx(StatusOf(c))
        /\ BodyOf(c).kind # "json" /\ IsError(result[c][1])

\* C8: a call sends one request if its language is supported and none
\* otherwise, never a second one, and holds a verdict only after that request
\* was answered with a success status
C8_AtMostOneRequest ==
    \A c \in Calls :
        /\ Len(sent[c]) <= 1
        /\ pc[c] # "idle" => Len(sent[c]) = (IF Supported(ArgsOf(c).language) THEN 1 ELSE 0)
        /\ (result[c] # None /\ result[c][1].tag = "Ok")
             => Len(sent[c]) = 1 /\ GotResponse(c) /\ Status2xx(StatusOf(c))

\* a call is over after a send failure, with its one request
C8_Witness ==
    \E c \in Calls :
        /\ pc[c] = "done" /\ response[c] # None /\ response[c][1].tag = "Err"
        /\ Len(sent[c]) = 1 /\ IsError(result[c][1])

CallLocals(c) ==
    <<args[c], findings_list[c], prompt[c], sent[c], response[c], text[c], result[c]>>

\* the result of a call as its own inputs and its own response decide it
OutcomeOf(a, resp) ==
    IF ~Supported(a.language) THEN Err("InvalidInput", "Unsupported language")
    ELSE IF resp[1].tag = "Err" THEN resp[1]
    ELSE IF ~Status2xx(resp[1].value.status)
         THEN Err("Other", "Failed to get a valid response from OpenAI")
    ELSE IF resp[1].value.body.kind # "json" THEN Err("reqwest", "decode")
    ELSE Ok(<<VerdictFor(IF resp[1].value.body.choices = <<>> THEN ""
                         ELSE resp[1].value.body.choices[1].message.content), "">>)

\* C9: a step of one call leaves the inputs, findings list, prompt, request,
\* response, text and result of every other call as they were, and the result
\* of a finished call is the one its own inputs and its own response decide
C9_CallsDoNotInteract ==
    /\ [][\A c \in Calls : pc'[c] = pc[c] => CallLocals(c)' = CallLocals(c)]_vars
    /\ [](\A c \in Calls :
            pc[c] = "done" => result[c] = Some(OutcomeOf(ArgsOf(c), response[c])))

\* one call has its verdict while another, with other inputs and another
\* response, is still reading its body
C9_Witness ==
    \E c, d \in Calls :
        /\ c # d /\ pc[c] = "done" /\ IsVerdict(result[c][1])
        /\ pc[d] = "body" /\ args[c] # args[d] /\ response[c] # response[d]

\* C10: a supported-language call that retains no finding still sends its one
\* request, with an empty findings list in the prompt, and its verdict is the
\* classification of the reply
C10_NoShortCircuit ==
    \A c \in Calls :
        (pc[c] # "idle" /\ Supported(ArgsOf(c).language) /\ ExpectedList(ArgsOf(c)) = "")
            => /\ findings_list[c] = Some("")
               /\ Len(sent[c]) = 1
               /\ contains(sent[c][1].json.messages[1].content,
                      "\n\nFindings list:\n\n\nAre these valid vulnerabilities")
               /\ (pc[c] = "done" /\ ~Failed(c))
                    => result[c] = Verdict(VerdictFor(
                           IF BodyOf(c).choices = <<>> THEN ""
                           ELSE BodyOf(c).choices[1].message.content))

\* "Valid" was returned for findings that were all filtered out
C10_Witness ==
    \E c \in Calls :
        /\ pc[c] = "done" /\ Supported(ArgsOf(c).language)
        /\ ArgsOf(c).findings_by_file # <<>>
        /\ ExpectedList(ArgsOf(c)) = ""
        /\ result[c] = Verdict("Valid")

====
